---------------------------- MODULE Spec2Model ----------------------------
(***************************************************************************)
(* Model of ballbot-omni-app/bbot_app.py: the soft real-time loop           *)
(* (LoopKiller, SoftRealtimeLoop used as an iterator) and the balance       *)
(* control program that runs one tick of kinematics, PID, safety envelope   *)
(* and command mixing per period, followed by the shutdown command.         *)
(*                                                                         *)
(* Time is an integer clock.  One clock unit is PRECISION_OF_SLEEP; the     *)
(* period DT is a small number of clock units.  Real-valued quantities      *)
(* (angles, rates, torques, duties, fade) are fixed-point numbers with      *)
(* four decimals, the resolution of the mixer's literals.                   *)
(***************************************************************************)
EXTENDS Integers, Sequences, FiniteSets, TLC

(***************************************************************************)
(* Bounds of the model.                                                     *)
(***************************************************************************)
\* the clock is observed from 0 to MaxTime
MaxTime == 7
\* the period of the loop, in clock units
DT == 3
\* the positive fade duration LoopSpec builds the loop with
FadeTime == 2
\* how many cancellation requests (signals, stop()) a run sees at most
MaxRequests == 2

(***************************************************************************)
(* Program constants.                                                       *)
(***************************************************************************)
PRECISION_OF_SLEEP == 1
\* fixed point: 1.0 is Scale
Scale == 100 * 100
\* np.deg2rad(5) = 0.0873
MAX_TILT == 873
MAX_BALL_VELOCITY == 5000
MAX_DUTY == 8000
MAX_TZ == 5000
\* RW / (3 * RK * cos(ALPHA)) = 0.0048 / (3 * 0.1210 * 0.70711) = 0.0187
J11 == -374
J12 == 187
J13 == J12
J21 == 0
J22 == -324
J23 == -1 * J22
J31 == 187
J32 == J31
J33 == J31
\* Python's None, for the fields that hold a time or None
None == -1

VARIABLES
  now,              \* time.time()
  pc,               \* position of the main thread in the program
  fade,             \* the fade argument SoftRealtimeLoop is constructed with
  _fade_time,       \* LoopKiller._fade_time
  _soft_kill_time,  \* LoopKiller._soft_kill_time
  _kill_now,        \* LoopKiller._kill_now
  _kill_soon,       \* LoopKiller._kill_soon
  t0,               \* SoftRealtimeLoop.t0
  t1,               \* SoftRealtimeLoop.t1
  ttarg,            \* SoftRealtimeLoop.ttarg
  sum_err,          \* SoftRealtimeLoop.sum_err
  sum_var,          \* SoftRealtimeLoop.sum_var
  sleep_t_agg,      \* SoftRealtimeLoop.sleep_t_agg
  n,                \* SoftRealtimeLoop.n
  t_pre_sleep,      \* __next__'s local t_pre_sleep, None outside a sleep
  sleep_until,      \* when the pending time.sleep() may return, or None
  t,                \* the loop variable of the for statement
  commands,         \* the mo_cmds record
  states,           \* the mo_states record
  prev_dphi,        \* previous body rate
  Tx,               \* roll torque
  Ty,               \* pitch torque
  Tz,               \* yaw torque
  mo_Tz,            \* mo_controller.Tz, written by the controller thread
  last_sent,        \* history: the last command given to send_topic_data
  n_sent,           \* history: how many commands were given to it (capped)
  kills_sent,       \* history: how many of them had the kill flag set
  sent_after_kill,  \* history: a command was sent after a kill-flagged one
  requests,         \* history: number of cancellation requests so far
  fade_req,         \* history: the time of the request that began a fade
  ticks,            \* history: number of ticks the iterator has yielded
  yields,           \* history: the time each tick was yielded at
  skips,            \* history: number of tick bodies ended by KeyError
  fault,            \* history: a tick's computation has raised
  pid_Tx,           \* history: the last output of theta_roll_pid
  report,           \* history: how the report of __del__ ended
  ret0,             \* history: function_in_loop returned 0 to a running loop
  late_calls        \* history: calls of function_in_loop after that return

killer_vars == <<_fade_time, _soft_kill_time, _kill_now, _kill_soon>>
loop_vars == <<t0, t1, ttarg, sum_err, sum_var, sleep_t_agg, n, t_pre_sleep,
               sleep_until, t>>
ctrl_vars == <<commands, states, prev_dphi, Tx, Ty, Tz>>
sent_vars == <<last_sent, n_sent, kills_sent, sent_after_kill>>
req_vars == <<requests, fade_req>>
hist_vars == <<yields, skips, fault, pid_Tx, report>>
run_vars == <<ret0, late_calls>>
vars == <<now, pc, fade, killer_vars, loop_vars, ctrl_vars, mo_Tz, sent_vars,
          req_vars, ticks, hist_vars, run_vars>>

Max(a, b) == IF a >= b THEN a ELSE b
Abs(a) == IF a >= 0 THEN a ELSE -a

(***************************************************************************)
(* Fixed-point product, rounded towards zero.                               *)
(***************************************************************************)
Mul(a, b) ==
  LET p == a * b
  IN IF p >= 0 THEN p \div Scale ELSE -((-p) \div Scale)


(***************************************************************************)
(* LoopKiller                                                               *)
(***************************************************************************)
\* a getter that never lets the fade run out
kill_now_no_promote == _kill_now

\* the value the kill_now property returns at the current time; the getter
\* also stores that value in _kill_now
kill_now ==
  IF _kill_now THEN TRUE
  ELSE IF _kill_soon /\ (now - _soft_kill_time) > _fade_time THEN TRUE
  ELSE _kill_now

\* a read of the kill_now property, returning k
ReadKillNow(k) ==
  /\ k = kill_now
  /\ _kill_now' = k

\* a setter for which a second request restarts the fade
kill_now_set_restart(val) ==
  IF val
  THEN IF _fade_time > 0
       THEN /\ _kill_soon' = TRUE
            /\ _soft_kill_time' = now
            /\ UNCHANGED _kill_now
       ELSE /\ _kill_now' = TRUE
            /\ UNCHANGED <<_kill_soon, _soft_kill_time>>
  ELSE /\ _kill_now' = FALSE
       /\ _kill_soon' = FALSE
       /\ _soft_kill_time' = None

\* a setter that begins a fade even when the fade duration is zero
kill_now_set_fade_zero(val) ==
  IF val
  THEN IF _kill_soon
       THEN /\ _kill_now' = TRUE
            /\ UNCHANGED <<_kill_soon, _soft_kill_time>>
       ELSE IF _fade_time >= 0
            THEN /\ _kill_soon' = TRUE
                 /\ _soft_kill_time' = now
                 /\ UNCHANGED _kill_now
            ELSE /\ _kill_now' = TRUE
                 /\ UNCHANGED <<_kill_soon, _soft_kill_time>>
  ELSE /\ _kill_now' = FALSE
       /\ _kill_soon' = FALSE
       /\ _soft_kill_time' = None

\* a setter for which a request on a stopped loop clears the stop
kill_now_set_toggle(val) ==
  IF val /\ ~_kill_now
  THEN IF _kill_soon
       THEN /\ _kill_now' = TRUE
            /\ UNCHANGED <<_kill_soon, _soft_kill_time>>
       ELSE IF _fade_time > 0
            THEN /\ _kill_soon' = TRUE
                 /\ _soft_kill_time' = now
                 /\ UNCHANGED _kill_now
            ELSE /\ _kill_now' = TRUE
                 /\ UNCHANGED <<_kill_soon, _soft_kill_time>>
  ELSE /\ _kill_now' = FALSE
       /\ _kill_soon' = FALSE
       /\ _soft_kill_time' = None

\* the kill_now setter
kill_now_set(val) ==
  IF val
  THEN IF _kill_soon
       THEN /\ _kill_now' = TRUE
            /\ UNCHANGED <<_kill_soon, _soft_kill_time>>
       ELSE IF _fade_time > 0
            THEN /\ _kill_soon' = TRUE
                 /\ _soft_kill_time' = now
                 /\ UNCHANGED _kill_now
            ELSE /\ _kill_now' = TRUE
                 /\ UNCHANGED <<_kill_soon, _soft_kill_time>>
  ELSE /\ _kill_now' = FALSE
       /\ _kill_soon' = FALSE
       /\ _soft_kill_time' = None

\* a fade that ramps up from 0 instead of down from 1
get_fade_ramp_up ==
  IF _kill_soon
  THEN LET el == now - _soft_kill_time
       IN IF el >= _fade_time THEN 0
          ELSE (el * Scale) \div _fade_time
  ELSE Scale

\* get_fade, as a fixed-point number
get_fade ==
  IF _kill_soon
  THEN LET el == now - _soft_kill_time
       IN IF el >= _fade_time THEN 0
          ELSE Scale - ((el * Scale) \div _fade_time)
  ELSE Scale

\* a cancellation request is counted; the first one begins a fade when the
\* loop was built with a fade duration, and is dated then
CountRequest ==
  /\ requests' = requests + 1
  /\ fade_req' = IF requests = 0 /\ fade > 0 THEN now ELSE fade_req

\* a run sees at most MaxRequests cancellation requests
CanRequest == requests < MaxRequests

\* the signals LoopKiller installs handle_signal for
Signals == {"SIGTERM", "SIGINT", "SIGHUP"}

\* a handler that only ever begins a fade
handle_signal_soon(signum) ==
  /\ _kill_soon' = TRUE
  /\ _soft_kill_time' = now
  /\ UNCHANGED _kill_now

handle_signal(signum) == kill_now_set(TRUE)

\* a stop() that requests nothing
stop_ignored == UNCHANGED <<_kill_now, _kill_soon, _soft_kill_time>>

\* SoftRealtimeLoop.stop
stop == kill_now_set(TRUE)

\* a signal is delivered and handle_signal runs, at any point of the main
\* thread once the handlers are installed
Signal ==
  /\ pc \notin {"init", "construct", "done", "crashed"}
  /\ CanRequest
  /\ \E signum \in Signals : handle_signal(signum)
  /\ CountRequest
  /\ UNCHANGED <<now, pc, fade, _fade_time, loop_vars, ctrl_vars, mo_Tz,
                 sent_vars, ticks,
                 hist_vars, run_vars>>

\* the clock advances, from the start of the loop to the end of the program;
\* it is observed up to MaxTime and, after a cancellation request, until the
\* pending sleep has returned and for a further period after the fade
Tick ==
  /\ pc \notin {"init", "construct", "iter", "done", "crashed"}
  /\ \/ now < MaxTime
     \/ requests > 0 /\ pc = "sleeping" /\ now < sleep_until
     \/ fade_req /= None /\ now < fade_req + fade + DT
  /\ now' = now + 1
  /\ UNCHANGED <<pc, fade, killer_vars, loop_vars, ctrl_vars, mo_Tz,
                 sent_vars, req_vars, ticks,
                 hist_vars, run_vars>>


(***************************************************************************)
(* The command-write interface: ser_dev.send_topic_data(101, commands).     *)
(***************************************************************************)
Send(cmd) ==
  /\ last_sent' = cmd
  /\ n_sent' = n_sent + 1
  /\ kills_sent' = kills_sent + (IF cmd.kill /= 0 THEN 1 ELSE 0)
  /\ sent_after_kill' = (sent_after_kill \/ kills_sent > 0)

\* np.zeros(1, dtype=mo_cmds_dtype)[0], with commands['kill'] = 0.0
ZeroCommands ==
  [motor_1_duty |-> 0, motor_2_duty |-> 0, motor_3_duty |-> 0, kill |-> 0]

\* np.zeros(1, dtype=mo_states_dtype)[0]
ZeroStates ==
  [theta_roll |-> 0, theta_pitch |-> 0, dpsi_1 |-> 0, dpsi_2 |-> 0,
   dpsi_3 |-> 0]

\* the initial send of the zeroed commands, before the loop is built
SendInitial ==
  /\ pc = "init"
  /\ Send(commands)
  /\ pc' = "construct"
  /\ UNCHANGED <<now, fade, killer_vars, loop_vars, ctrl_vars, mo_Tz,
                 req_vars, ticks,
                 hist_vars, run_vars>>

(***************************************************************************)
(* SoftRealtimeLoop                                                         *)
(***************************************************************************)
\* SoftRealtimeLoop(dt=DT, report=True): __init__ and LoopKiller.__init__
Construct ==
  /\ pc = "construct"
  /\ t0' = now
  /\ t1' = now
  /\ _fade_time' = fade
  /\ _soft_kill_time' = None
  /\ ttarg' = None
  /\ sum_err' = 0
  /\ sum_var' = 0
  /\ sleep_t_agg' = 0
  /\ n' = 0
  /\ pc' = "iter"
  /\ UNCHANGED <<now, fade, _kill_now, _kill_soon, t_pre_sleep, sleep_until,
                 t, ctrl_vars, mo_Tz, sent_vars, req_vars, ticks,
                 hist_vars, run_vars>>

\* __iter__
Iter ==
  /\ pc = "iter"
  /\ t0' = now + DT
  /\ t1' = now + DT
  /\ pc' = "next"
  /\ UNCHANGED <<now, fade, killer_vars, ttarg, sum_err, sum_var,
                 sleep_t_agg, n, t_pre_sleep, sleep_until, t, ctrl_vars,
                 mo_Tz, sent_vars, req_vars, ticks,
                 hist_vars, run_vars>>

\* __next__, its first kill check: StopIteration ends the for statement
NextEntry ==
  /\ pc = "next"
  /\ \E k \in BOOLEAN :
       /\ ReadKillNow(k)
       /\ pc' = IF k THEN "del" ELSE "sleep_loop"
  /\ UNCHANGED <<now, fade, _fade_time, _soft_kill_time, _kill_soon,
                 loop_vars, ctrl_vars, mo_Tz, sent_vars, req_vars, ticks,
                 hist_vars, run_vars>>

\* the argument of time.sleep in the coarse sleep
SleepLength == Max(PRECISION_OF_SLEEP, t1 - now - PRECISION_OF_SLEEP)

\* __next__, the condition of the coarse sleep loop and the call of sleep
SleepLoop ==
  /\ pc = "sleep_loop"
  /\ IF now < t1 - 2 * PRECISION_OF_SLEEP
     THEN \E k \in BOOLEAN :
            /\ ReadKillNow(k)
            /\ IF ~k
               THEN /\ t_pre_sleep' = now
                    /\ sleep_until' = now + SleepLength
                    /\ pc' = "sleeping"
               ELSE /\ pc' = "poll"
                    /\ UNCHANGED <<t_pre_sleep, sleep_until>>
     ELSE /\ pc' = "poll"
          /\ UNCHANGED <<_kill_now, t_pre_sleep, sleep_until>>
  /\ UNCHANGED <<now, fade, _fade_time, _soft_kill_time, _kill_soon, t0, t1,
                 ttarg, sum_err, sum_var, sleep_t_agg, n, t, ctrl_vars,
                 mo_Tz, sent_vars, req_vars, ticks,
                 hist_vars, run_vars>>

\* time.sleep returns, no earlier than asked, and the slept time is added
Wake ==
  /\ pc = "sleeping"
  /\ now >= sleep_until
  /\ sleep_t_agg' = sleep_t_agg + (now - t_pre_sleep)
  /\ t_pre_sleep' = None
  /\ sleep_until' = None
  /\ pc' = "sleep_loop"
  /\ UNCHANGED <<now, fade, killer_vars, t0, t1, ttarg, sum_err, sum_var, n,
                 t, ctrl_vars, mo_Tz, sent_vars, req_vars, ticks,
                 hist_vars, run_vars>>

\* a busy poll that does not wait for the deadline
Poll_no_wait ==
  /\ pc = "poll"
  /\ pc' = "check"
  /\ UNCHANGED <<now, fade, killer_vars, loop_vars, ctrl_vars, mo_Tz,
                 sent_vars, req_vars, ticks, hist_vars, run_vars>>

\* __next__, the busy poll: one evaluation of its condition; sigtimedwait
\* finds no pending signal
Poll ==
  /\ pc = "poll"
  /\ IF now < t1
     THEN \E k \in BOOLEAN :
            /\ ReadKillNow(k)
            /\ pc' = IF k THEN "check" ELSE "poll"
     ELSE /\ pc' = "check"
          /\ UNCHANGED _kill_now
  /\ UNCHANGED <<now, fade, _fade_time, _soft_kill_time, _kill_soon,
                 loop_vars, ctrl_vars, mo_Tz, sent_vars, req_vars, ticks,
                 hist_vars, run_vars>>

\* __next__, the busy poll: sigtimedwait returns a pending signal and the
\* loop calls stop()
PollSignal ==
  /\ pc = "poll"
  /\ now < t1
  /\ ~kill_now
  /\ CanRequest
  /\ stop
  /\ CountRequest
  /\ UNCHANGED <<now, pc, fade, _fade_time, loop_vars, ctrl_vars, mo_Tz,
                 sent_vars, ticks,
                 hist_vars, run_vars>>

\* the deadline re-based on the time the tick is yielded at
NextDeadline_rebased == now + DT

\* the deadline after a tick is yielded
NextDeadline == t1 + DT

\* a __next__ that counts the first tick in the statistics, with error 0
Yield_counts_first ==
  /\ pc = "check"
  /\ \E k \in BOOLEAN :
       /\ ReadKillNow(k)
       /\ IF k
          THEN /\ pc' = "del"
               /\ UNCHANGED <<t1, ttarg, sum_err, sum_var, n, t, ticks,
                              yields>>
          ELSE /\ t1' = t1 + DT
               /\ IF ttarg = None
                  THEN /\ ttarg' = now + DT
                       /\ n' = n + 1
                       /\ UNCHANGED <<sum_err, sum_var>>
                  ELSE LET error == now - ttarg
                       IN /\ sum_err' = sum_err + error
                          /\ sum_var' = sum_var + error * error
                          /\ n' = n + 1
                          /\ ttarg' = ttarg + DT
               /\ t' = t1' - t0
               /\ ticks' = ticks + 1
               /\ yields' = Append(yields, now)
               /\ pc' = "body"
  /\ UNCHANGED <<now, fade, _fade_time, _soft_kill_time, _kill_soon, t0,
                 sleep_t_agg, t_pre_sleep, sleep_until, ctrl_vars, mo_Tz,
                 sent_vars, req_vars, skips, fault, pid_Tx, report,
                 run_vars>>

\* __next__, from its last kill check to its return: the deadline advances,
\* the timing error is accumulated, and the tick is yielded
Yield ==
  /\ pc = "check"
  /\ \E k \in BOOLEAN :
       /\ ReadKillNow(k)
       /\ IF k
          THEN /\ pc' = "del"
               /\ UNCHANGED <<t1, ttarg, sum_err, sum_var, n, t, ticks,
                              yields>>
          ELSE /\ t1' = NextDeadline
               /\ IF ttarg = None
                  THEN /\ ttarg' = now + DT
                       /\ UNCHANGED <<sum_err, sum_var, n>>
                  ELSE LET error == now - ttarg
                       IN /\ sum_err' = sum_err + error
                          /\ sum_var' = sum_var + error * error
                          /\ n' = n + 1
                          /\ ttarg' = ttarg + DT
               /\ t' = t1' - t0
               /\ ticks' = ticks + 1
               /\ yields' = Append(yields, now)
               /\ pc' = "body"
  /\ UNCHANGED <<now, fade, _fade_time, _soft_kill_time, _kill_soon, t0,
                 sleep_t_agg, t_pre_sleep, sleep_until, ctrl_vars, mo_Tz,
                 sent_vars, req_vars, skips, fault, pid_Tx, report,
                 run_vars>>


(***************************************************************************)
(* The control program                                                      *)
(***************************************************************************)
\* what ser_dev.get_cur_topic_data(121)[0] may hold: upright at rest,
\* rolled or pitched to 1.1 * MAX_TILT, and upright with wheel 1 at 20 rad/s
SensorSamples ==
  { [theta_roll |-> 0, theta_pitch |-> 0, dpsi_1 |-> 0, dpsi_2 |-> 0,
     dpsi_3 |-> 0],
    [theta_roll |-> 960, theta_pitch |-> 0, dpsi_1 |-> 0, dpsi_2 |-> 0,
     dpsi_3 |-> 0],
    [theta_roll |-> 0, theta_pitch |-> -960, dpsi_1 |-> 0, dpsi_2 |-> 0,
     dpsi_3 |-> 0],
    [theta_roll |-> 0, theta_pitch |-> 0, dpsi_1 |-> 20 * Scale,
     dpsi_2 |-> 0, dpsi_3 |-> 0] }

\* the outputs a PID with output_limits (-MAX_DUTY, MAX_DUTY) may give
PIDOutputs == {0, MAX_DUTY}

\* the values the controller thread gives mo_controller.Tz:
\* MAX_TZ * sin(i), -MAX_TZ * sin(i) and 0.0
TzLevels == {-MAX_TZ, 0, MAX_TZ}

\* dphi = np.matmul(J, dpsi)
Kinematics(st) ==
  << Mul(J11, st.dpsi_1) + Mul(J12, st.dpsi_2) + Mul(J13, st.dpsi_3),
     Mul(J21, st.dpsi_1) + Mul(J22, st.dpsi_2) + Mul(J23, st.dpsi_3),
     Mul(J31, st.dpsi_1) + Mul(J32, st.dpsi_2) + Mul(J33, st.dpsi_3) >>

\* np.abs(theta_roll) > MAX_TILT or np.abs(theta_pitch) > MAX_TILT
TiltExceeded(st) ==
  Abs(st.theta_roll) > MAX_TILT \/ Abs(st.theta_pitch) > MAX_TILT

\* np.max(np.abs(dphi)) > MAX_BALL_VELOCITY
VelocityExceeded(dphi) ==
  \E i \in 1..3 : Abs(dphi[i]) > MAX_BALL_VELOCITY

\* the safety envelope: the pitch torque the mixer is given, from the pitch
\* torque ty computed on this tick; both guarded branches are `pass`
Envelope(st, dphi, ty) ==
  IF TiltExceeded(st) THEN ty
  ELSE IF VelocityExceeded(dphi) THEN ty
  ELSE ty

\* a mixer whose third motor takes the roll torque with the sign of the
\* second
Mixer_roll_sign(tx, ty, tz) ==
  [motor_1_duty |-> Mul(-3333, tz - Mul(28284, ty)),
   motor_2_duty |-> Mul(-3333, tz + Mul(14142, ty + Mul(17320, tx))),
   motor_3_duty |-> Mul(-3333, tz + Mul(14142, ty + Mul(17320, tx)))]

\* the three duties of the command mixer
Mixer(tx, ty, tz) ==
  [motor_1_duty |-> Mul(-3333, tz - Mul(28284, ty)),
   motor_2_duty |-> Mul(-3333, tz + Mul(14142, ty + Mul(17320, tx))),
   motor_3_duty |-> Mul(-3333, tz + Mul(14142, ty - Mul(17320, tx)))]

\* a tick that sets the kill flag along with the duties
Mixed_kills(cmd, tx, ty, tz) ==
  [motor_1_duty |-> 0, motor_2_duty |-> 0, motor_3_duty |-> 0,
   kill |-> Scale]

\* the commands record with its three duties set by the mixer
Mixed(cmd, tx, ty, tz) ==
  LET d == Mixer(tx, ty, tz)
  IN [cmd EXCEPT !.motor_1_duty = d.motor_1_duty,
                 !.motor_2_duty = d.motor_2_duty,
                 !.motor_3_duty = d.motor_3_duty]

\* the controller thread (on_R1_press, on_L1_press, on_R1_release,
\* on_L1_release) writes mo_controller.Tz; the main thread sees its writes
\* only through the read of the tick body, so they are interleaved there
YawInput ==
  /\ pc = "body"
  /\ \E v \in TzLevels : v /= mo_Tz /\ mo_Tz' = v
  /\ UNCHANGED <<now, pc, fade, killer_vars, loop_vars, ctrl_vars,
                 sent_vars, req_vars, ticks,
                 hist_vars, run_vars>>

\* a KeyError handler that sends the command record once more
SensorUnavailable_resends ==
  /\ pc = "body"
  /\ skips' = skips + 1
  /\ Send(commands)
  /\ pc' = "next"
  /\ UNCHANGED <<now, fade, killer_vars, loop_vars, ctrl_vars, mo_Tz,
                 req_vars, ticks, yields, fault, pid_Tx, report, run_vars>>

\* the sensor read raises KeyError: the tick body ends with `continue`
SensorUnavailable ==
  /\ pc = "body"
  /\ skips' = skips + 1
  /\ pc' = "next"
  /\ UNCHANGED <<now, fade, killer_vars, loop_vars, ctrl_vars, mo_Tz,
                 sent_vars, req_vars, ticks, yields, fault, pid_Tx, report,
                 run_vars>>

\* a tick body whose envelope cuts the roll and yaw torques outside it
Compute_cuts_torques ==
  /\ states' \in SensorSamples
  /\ pid_Tx' \in PIDOutputs
  /\ LET outside == \/ TiltExceeded(states')
                    \/ VelocityExceeded(Kinematics(states'))
     IN /\ Tx' = IF outside THEN 0 ELSE pid_Tx'
        /\ Tz' = IF outside THEN 0 ELSE mo_Tz
  /\ \E pid_out \in PIDOutputs :
       Ty' = Envelope(states', Kinematics(states'), pid_out)
  /\ commands' = Mixed(commands, Tx', Ty', Tz')

\* the tick body up to the call of send_topic_data: the sensor read returns
\* the current states, then PID outputs, yaw input, envelope and mixer
Compute ==
  /\ states' \in SensorSamples
  /\ pid_Tx' \in PIDOutputs
  /\ Tx' = pid_Tx'
  /\ \E pid_out \in PIDOutputs :
       Ty' = Envelope(states', Kinematics(states'), pid_out)
  /\ Tz' = mo_Tz
  /\ commands' = Mixed(commands, Tx', Ty', Tz')

\* the tick body: the command is computed and sent, and the body rate is
\* remembered
Control ==
  /\ pc = "body"
  /\ Compute
  /\ Send(commands')
  /\ prev_dphi' = Kinematics(states')
  /\ pc' = "next"
  /\ UNCHANGED <<now, fade, killer_vars, loop_vars, mo_Tz, req_vars, ticks,
                 yields, skips, fault, report, run_vars>>

\* the tick body when send_topic_data raises: the exception leaves the for
\* statement and the program
ControlSendFails ==
  /\ pc = "body"
  /\ Compute
  /\ Send(commands')
  /\ pc' = "crashed"
  /\ UNCHANGED <<now, fade, killer_vars, loop_vars, prev_dphi, mo_Tz,
                 req_vars, ticks, yields, skips, fault, report, run_vars>>

\* the tick body when its computation raises (anything but the KeyError of
\* the sensor read): no handler encloses it, so the exception leaves the for
\* statement and the program before a command is sent
ComputeFaults ==
  /\ pc = "body"
  /\ fault' = TRUE
  /\ pc' = "crashed"
  /\ UNCHANGED <<now, fade, killer_vars, loop_vars, ctrl_vars, mo_Tz,
                 sent_vars, req_vars, ticks, yields, skips, pid_Tx, report,
                 run_vars>>

\* how the prints of __del__ end: the average divides by n, the deviation
\* by n - 1, the share of time slept by time() = time.time() - t0
Report ==
  IF n = 0 \/ n - 1 = 0 \/ now - t0 = 0 THEN "ZeroDivisionError"
  ELSE "printed"

\* __del__ with report=True, run when the for statement gives up the loop
\* object: at StopIteration, or when an exception ends the program
Del ==
  /\ pc \in {"del", "crashed"}
  /\ report = "none"
  /\ report' = Report
  /\ pc' = IF pc = "del" THEN "shutdown" ELSE pc
  /\ UNCHANGED <<now, fade, killer_vars, loop_vars, ctrl_vars, mo_Tz,
                 sent_vars, req_vars, ticks, yields, skips, fault, pid_Tx,
                 run_vars>>

\* the torques the mixer is applied to by itself: zero, the limits of the
\* PIDs and of the yaw input, and the unit torque, of either sign
MixInputs == {-Scale, -MAX_DUTY, -MAX_TZ, 0, MAX_TZ, MAX_DUTY, Scale}

\* lines 448-450 by themselves: the duties of the command record are set
\* from the torques held
Mix ==
  /\ pc = "mix"
  /\ commands' = Mixed(commands, Tx, Ty, Tz)
  /\ pc' = "done"
  /\ UNCHANGED <<now, fade, killer_vars, loop_vars, states, prev_dphi, Tx, Ty,
                 Tz, mo_Tz, sent_vars, req_vars, ticks, hist_vars, run_vars>>

\* after the for statement: the commands are zeroed, kill is set, and the
\* record is sent
Shutdown ==
  /\ pc = "shutdown"
  /\ commands' = [ZeroCommands EXCEPT !.kill = Scale]
  /\ Send(commands')
  /\ pc' = "done"
  /\ UNCHANGED <<now, fade, killer_vars, loop_vars, states, prev_dphi, Tx, Ty,
                 Tz, mo_Tz, req_vars, ticks,
                 hist_vars, run_vars>>

(***************************************************************************)
(* SoftRealtimeLoop.run, for a program that builds the loop and hands its   *)
(* tick function to run() instead of iterating.                             *)
(***************************************************************************)
\* what function_in_loop may return: 0 asks the loop to stop, None does not
Returns == {0, None}

\* run(), up to its loop: the deadline grid starts one period from now
RunStart ==
  /\ pc = "run"
  /\ t0' = now + DT
  /\ t1' = now + DT
  /\ pc' = "run_check"
  /\ UNCHANGED <<now, fade, killer_vars, ttarg, sum_err, sum_var,
                 sleep_t_agg, n, t_pre_sleep, sleep_until, t, ctrl_vars,
                 mo_Tz, sent_vars, req_vars, ticks, hist_vars, run_vars>>

\* run(), the condition of its outer loop; when it ends, run() prints and
\* returns
RunCheck ==
  /\ pc = "run_check"
  /\ \E k \in BOOLEAN :
       /\ ReadKillNow(k)
       /\ pc' = IF k THEN "done" ELSE "run_call"
  /\ UNCHANGED <<now, fade, _fade_time, _soft_kill_time, _kill_soon,
                 loop_vars, ctrl_vars, mo_Tz, sent_vars, req_vars, ticks,
                 hist_vars, run_vars>>

\* run(), the call of function_in_loop returns; on 0 the loop calls stop()
RunCall ==
  /\ pc = "run_call"
  /\ \E ret \in Returns :
       IF ret = 0
       THEN /\ CanRequest
            /\ stop
            /\ CountRequest
            /\ ret0' = (ret0 \/ (~_kill_now /\ ~_kill_soon))
       ELSE UNCHANGED <<_kill_now, _kill_soon, _soft_kill_time, req_vars,
                        ret0>>
  /\ late_calls' = late_calls + (IF ret0 THEN 1 ELSE 0)
  /\ pc' = "run_wait"
  /\ UNCHANGED <<now, fade, _fade_time, loop_vars, ctrl_vars, mo_Tz,
                 sent_vars, ticks, hist_vars>>

\* run(), one evaluation of the condition of its busy poll, in which
\* sigtimedwait finds no pending signal; after the poll the deadline advances
RunWait ==
  /\ pc = "run_wait"
  /\ IF now < t1
     THEN \E k \in BOOLEAN :
            /\ ReadKillNow(k)
            /\ IF k
               THEN t1' = t1 + DT /\ pc' = "run_check"
               ELSE UNCHANGED <<t1, pc>>
     ELSE /\ t1' = t1 + DT
          /\ pc' = "run_check"
          /\ UNCHANGED _kill_now
  /\ UNCHANGED <<now, fade, _fade_time, _soft_kill_time, _kill_soon, t0,
                 ttarg, sum_err, sum_var, sleep_t_agg, n, t_pre_sleep,
                 sleep_until, t, ctrl_vars, mo_Tz, sent_vars, req_vars, ticks,
                 hist_vars, run_vars>>

\* run(), the busy poll: sigtimedwait returns a pending signal and the loop
\* calls stop()
RunWaitSignal ==
  /\ pc = "run_wait"
  /\ now < t1
  /\ ~kill_now
  /\ CanRequest
  /\ stop
  /\ CountRequest
  /\ UNCHANGED <<now, pc, fade, _fade_time, loop_vars, ctrl_vars, mo_Tz,
                 sent_vars, ticks, hist_vars, run_vars>>

(***************************************************************************)
(* Specifications                                                           *)
(***************************************************************************)
\* the state at position p of a program that builds its loop with fade f
\* and holds the torques tx, ty, tz
StartWith(f, p, tx, ty, tz) ==
  /\ now = 0
  /\ pc = p
  /\ fade = f
  /\ _fade_time = f
  /\ _soft_kill_time = None
  /\ _kill_now = FALSE
  /\ _kill_soon = FALSE
  /\ t0 = 0
  /\ t1 = 0
  /\ ttarg = None
  /\ sum_err = 0
  /\ sum_var = 0
  /\ sleep_t_agg = 0
  /\ n = 0
  /\ t_pre_sleep = None
  /\ sleep_until = None
  /\ t = 0
  /\ commands = ZeroCommands
  /\ states = ZeroStates
  /\ prev_dphi = <<0, 0, 0>>
  /\ Tx = tx
  /\ Ty = ty
  /\ Tz = tz
  /\ mo_Tz = 0
  /\ last_sent = ZeroCommands
  /\ n_sent = 0
  /\ kills_sent = 0
  /\ sent_after_kill = FALSE
  /\ requests = 0
  /\ fade_req = None
  /\ ticks = 0
  /\ yields = << >>
  /\ skips = 0
  /\ fault = FALSE
  /\ pid_Tx = 0
  /\ report = "none"
  /\ ret0 = FALSE
  /\ late_calls = 0

\* the same with the torques 0.0 the program starts from
StartAt(f, p) == StartWith(f, p, 0, 0, 0)

InitWith(f) == StartAt(f, "init")

\* the program as written: the loop is built with the default fade of 0.0
Init == InitWith(0)

\* the steps the main thread takes by itself
Program ==
  \/ SendInitial
  \/ Construct
  \/ Iter
  \/ NextEntry
  \/ SleepLoop
  \/ Wake
  \/ Poll
  \/ Yield
  \/ SensorUnavailable
  \/ Control
  \/ ControlSendFails
  \/ ComputeFaults
  \/ Del
  \/ Shutdown

Next ==
  \/ Program
  \/ PollSignal
  \/ Signal
  \/ YawInput
  \/ Tick

Spec == Init /\ [][Next]_vars

\* the loop built with either fade: none, or FadeTime
LoopInit == \E f \in {0, FadeTime} : InitWith(f)

\* the steps the main thread takes by itself when every tick body returns
\* without reaching the control code
LoopProgram ==
  \/ SendInitial
  \/ Construct
  \/ Iter
  \/ NextEntry
  \/ SleepLoop
  \/ Wake
  \/ Poll
  \/ Yield
  \/ SensorUnavailable
  \/ Del
  \/ Shutdown

LoopNext ==
  \/ LoopProgram
  \/ PollSignal
  \/ Signal
  \/ Tick

LoopSpec == LoopInit /\ [][LoopNext]_vars

\* the main thread keeps running and the clock keeps advancing; no signal
\* has to arrive
Fairness == WF_vars(LoopProgram) /\ WF_vars(Tick)

FairLoopSpec == LoopInit /\ [][LoopNext]_vars /\ Fairness

\* a loop built with either fade and started with run()
RunInit == \E f \in {0, FadeTime} : StartAt(f, "run")

RunNext ==
  \/ RunStart
  \/ RunCheck
  \/ RunCall
  \/ RunWait
  \/ RunWaitSignal
  \/ Signal
  \/ Tick

RunSpec == RunInit /\ [][RunNext]_vars

\* the mixer applied to every triple of MixInputs
MixInit == \E tx, ty, tz \in MixInputs : StartWith(0, "mix", tx, ty, tz)

MixNext == Mix

MixSpec == MixInit /\ [][MixNext]_vars


(***************************************************************************)
(* Claims                                                                   *)
(***************************************************************************)
\* the loop has passed __iter__
Iterating == pc \notin {"init", "construct", "iter"}

\* the tick body ran its control code in this step (a command was given to
\* send_topic_data inside the loop)
ControlStep == pc = "body" /\ n_sent' = n_sent + 1

\* a command with all duties zero and the kill flag set
IsKillCommand(cmd) ==
  /\ cmd.motor_1_duty = 0
  /\ cmd.motor_2_duty = 0
  /\ cmd.motor_3_duty = 0
  /\ cmd.kill = Scale

\* C1: the deadline t1 lies on the grid t0 + k * dt, where k is the number of
\* ticks yielded so far, whatever the time the ticks were yielded at, and the
\* value yielded on the k-th tick is k * dt.
C1_DeadlineGrid ==
  Iterating =>
    /\ t1 = t0 + ticks * DT
    /\ ticks >= 1 => t = ticks * DT

\* C1 witness: the second tick has been yielded late, after the first tick's
\* body overran its period, and the value yielded is 2 * dt.
C1_Witness ==
  /\ pc = "body"
  /\ ticks = 2
  /\ now > t0 + DT
  /\ t = 2 * DT

\* C2: once the program has left the loop, for whatever reason, the last
\* command given to the command-write interface has all duties zero and the
\* kill flag set.
C2_LastCommandKills ==
  pc \in {"done", "crashed"} => IsKillCommand(last_sent)

\* C3: on a tick whose tilt or body rate is outside the safety envelope, the
\* pitch torque given to the mixer is the pitch torque of the previous tick
\* (n_sent >= 2: a previous tick has computed one).
C3_PitchTorqueHeld ==
  [][ ( /\ ControlStep
        /\ n_sent >= 2
        /\ \/ TiltExceeded(states')
           \/ VelocityExceeded(Kinematics(states')) )
      => Ty' = Ty ]_vars

\* C4: every command given to the motor controller has all three duties
\* within MAX_DUTY in magnitude.
C4_DutyBounded ==
  /\ Abs(last_sent.motor_1_duty) <= MAX_DUTY
  /\ Abs(last_sent.motor_2_duty) <= MAX_DUTY
  /\ Abs(last_sent.motor_3_duty) <= MAX_DUTY

\* C5: the kill flag is clear in every command sent before and during the
\* loop; it is set in one command only, the last one, sent after the loop has
\* ended, and no command follows it.
C5_KillOnlyAtShutdown ==
  /\ ~sent_after_kill
  /\ pc /= "done" => kills_sent = 0 /\ last_sent.kill = 0 /\ commands.kill = 0
  /\ pc = "done" => kills_sent = 1 /\ last_sent.kill = Scale

\* C5 witness: the program has ended after a tick that sent a command, and
\* the shutdown command is the one kill-flagged command.
C5_Witness ==
  /\ pc = "done"
  /\ n_sent >= 3
  /\ kills_sent = 1

\* the time elapsed since the request that began the fade
FadeElapsed == now - fade_req

\* the shutdown command has been sent after the iterator stopped
Drained == pc = "done" /\ kill_now /\ IsKillCommand(last_sent)

\* C6: after a cancellation request at any point of the loop, with the clock
\* advancing and every tick body returning, the loop is eventually stopped
\* and the zeroed, kill-flagged command has been sent; a first request on a
\* loop with a fade duration puts it in the fading state, not the stopped one.
C6_CancelDrains ==
  /\ [](fade > 0 /\ requests = 1 /\ FadeElapsed < fade =>
          _kill_soon /\ ~_kill_now)
  /\ (requests > 0) ~> Drained

\* C6 witness: a loop with a fade duration has ended after one cancellation
\* request, through the fade.
C6_Witness ==
  /\ fade > 0
  /\ requests = 1
  /\ ticks >= 1
  /\ Drained

\* C7: with a fade duration, after a second cancellation request kill_now is
\* true, at once and whatever part of the fade remains.
C7_DoubleCancelStops ==
  fade > 0 /\ requests >= 2 => _kill_now /\ kill_now

\* C7 witness: the second request has arrived before the fade has run out,
\* while the loop is still running.
C7_Witness ==
  /\ fade > 0
  /\ requests = 2
  /\ FadeElapsed < fade
  /\ pc \in {"sleeping", "poll", "body"}
  /\ _kill_now

\* the fields of LoopKiller say stopped, with no fade begun
StoppedNoFade == _kill_now /\ ~_kill_soon /\ _soft_kill_time = None

\* C8: with fade duration 0, the first cancellation request leaves LoopKiller
\* stopped with no fade begun, and a further request changes nothing of the
\* program's state, so the loop stops where it does with a single request.
C8_CancelIdempotent ==
  /\ [](fade = 0 /\ requests >= 1 => StoppedNoFade /\ kill_now)
  /\ [][ fade = 0 /\ requests >= 1 /\ requests' > requests =>
           UNCHANGED <<now, pc, killer_vars, loop_vars, ctrl_vars, mo_Tz,
                       sent_vars, ticks>> ]_vars

\* C8 witness: a second request has arrived on a loop without fade before
\* the loop has noticed the first.
C8_Witness ==
  /\ fade = 0
  /\ requests = 2
  /\ pc \in {"sleeping", "poll", "body"}
  /\ StoppedNoFade

\* C9: get_fade is 1.0 before any cancellation request; after a request at
\* time s on a loop with fade duration F it is 1.0 at s, 1 - (t - s) / F up to
\* the fixed-point resolution while t - s < F (0.5 at s + F / 2), and 0.0
\* from s + F on.
C9_FadeLinear ==
  /\ requests = 0 => get_fade = Scale
  /\ fade > 0 /\ requests >= 1 =>
       /\ FadeElapsed = 0 => get_fade = Scale
       /\ 2 * FadeElapsed = fade => get_fade = Scale \div 2
       /\ FadeElapsed < fade =>
            Abs(fade * get_fade - Scale * (fade - FadeElapsed)) < fade
       /\ FadeElapsed >= fade => get_fade = 0

\* C9 witness: the loop is part of the way through its fade.
C9_Witness ==
  /\ fade > 0
  /\ requests = 1
  /\ FadeElapsed > 0
  /\ FadeElapsed < fade
  /\ get_fade > 0
  /\ get_fade < Scale

\* C10: with a fade duration F and a single request at time s, kill_now reads
\* false at every time t with t - s < F and true at every time t with
\* t - s >= F, the instant t - s = F included.
C10_StoppedFromFadeEnd ==
  fade > 0 /\ requests = 1 => (kill_now <=> FadeElapsed >= fade)

\* C11 as stated: once function_in_loop has returned 0 to a running loop,
\* the loop is stopped and function_in_loop is not called again, whatever
\* the fade duration.
C11_ZeroStopsAtOnce == ret0 => kill_now /\ late_calls = 0

\* C11: when function_in_loop returns 0 to a running loop built with fade
\* duration 0, the loop is stopped and function_in_loop is not called again;
\* on a loop built with a positive fade duration the return of 0 begins the
\* fade, as a first cancellation request does, and the loop is not stopped
\* before the fade has run out or a further request has arrived.
C11_ZeroStopsOrFades ==
  /\ ret0 /\ fade = 0 => kill_now /\ late_calls = 0
  /\ ret0 /\ fade > 0 =>
       /\ _kill_soon
       /\ requests = 1 /\ FadeElapsed <= fade => ~kill_now

\* C11 witness: on a loop with a fade duration, function_in_loop has been
\* called again after it returned 0, during the fade.
C11_Witness ==
  /\ fade > 0
  /\ ret0
  /\ late_calls >= 1
  /\ requests = 1
  /\ ~kill_now

\* C12: a tick whose sensor read raises KeyError is skipped entirely: no
\* command is sent, no torque is computed, prev_dphi, the states and the
\* command record are left as they were, and the loop goes on to __next__
\* with the deadline Yield has already advanced; so the commands sent in the
\* loop are as many as the ticks that were not skipped.
C12_KeyErrorSkipsTick ==
  /\ [][ skips' = skips + 1 =>
          /\ UNCHANGED <<ctrl_vars, pid_Tx, sent_vars, loop_vars, killer_vars>>
          /\ pc' = "next"
          /\ t1 = t0 + ticks * DT ]_vars
  /\ [](Iterating =>
          n_sent = 1 + ticks - skips
                     - (IF pc = "body" THEN 1 ELSE 0)
                     - (IF fault THEN 1 ELSE 0)
                     + (IF pc = "done" THEN 1 ELSE 0))

\* C12 witness: after a tick that sent a command, the next tick was skipped
\* and the loop is back at __next__.
C12_Witness ==
  /\ pc = "next"
  /\ ticks = 2
  /\ skips = 1
  /\ n_sent = 2
  /\ last_sent = commands
  /\ commands /= ZeroCommands
  /\ prev_dphi /= <<0, 0, 0>>

\* the timing error of the i-th tick (i >= 2): the time it was yielded at
\* less its target, which lies i - 1 periods after the first yield
TickError(i) == yields[i] - (yields[1] + (i - 1) * DT)

RECURSIVE SumErrors(_)
\* the sum of the timing errors of ticks 2..k
SumErrors(k) == IF k < 2 THEN 0 ELSE SumErrors(k - 1) + TickError(k)

RECURSIVE SumSquares(_)
\* the sum of the squared timing errors of ticks 2..k
SumSquares(k) ==
  IF k < 2 THEN 0 ELSE SumSquares(k - 1) + TickError(k) * TickError(k)

\* C13: the first tick yielded only sets the timing reference: after k >= 1
\* ticks n is k - 1, sum_err and sum_var are the sums of the errors and of
\* the squared errors of ticks 2..k, and the target of the next tick lies k
\* periods after the first yield; before the first tick nothing is counted.
C13_FirstTickExcluded ==
  /\ ticks = Len(yields)
  /\ ticks = 0 => n = 0 /\ sum_err = 0 /\ sum_var = 0 /\ ttarg = None
  /\ ticks >= 1 =>
       /\ n = ticks - 1
       /\ sum_err = SumErrors(ticks)
       /\ sum_var = SumSquares(ticks)
       /\ ttarg = yields[1] + ticks * DT

\* C13 witness: three ticks have been yielded, the second of them late, and
\* two errors have been counted.
C13_Witness ==
  /\ ticks = 3
  /\ n = 2
  /\ TickError(2) > 0
  /\ sum_err = TickError(2) + TickError(3)

\* C14: whenever __del__ of the reporting loop has run, on whatever
\* termination path and after however many ticks, its report was printed to
\* the end without an error.
C14_ReportPrinted == report \in {"none", "printed"}

\* C15: a fault raised by the computation of a tick does not leave the tick:
\* the program is not ended by it, and the loop goes on.
C15_FaultContained == fault => pc /= "crashed"

\* C16: on every tick that is not skipped, in whichever branch of the
\* envelope, the roll torque given to the mixer is the output of the roll PID
\* on this tick and the yaw torque is mo_controller.Tz as read on this tick;
\* the duties sent are the mixer's for these two values.
C16_RollYawVerbatim ==
  [][ ControlStep =>
        /\ Tx' = pid_Tx'
        /\ Tz' = mo_Tz
        /\ LET d == Mixer(pid_Tx', Ty', mo_Tz)
           IN /\ last_sent'.motor_1_duty = d.motor_1_duty
              /\ last_sent'.motor_2_duty = d.motor_2_duty
              /\ last_sent'.motor_3_duty = d.motor_3_duty ]_vars

\* C16 witness: a tick outside the tilt envelope has sent its command, with
\* the roll PID at its limit and the yaw input at MAX_TZ.
C16_Witness ==
  /\ pc = "next"
  /\ n_sent >= 2
  /\ TiltExceeded(states)
  /\ pid_Tx = MAX_DUTY
  /\ Tx = MAX_DUTY
  /\ Tz = MAX_TZ
  /\ last_sent = commands

\* a and b differ by no more than the rounding of the nested fixed-point
\* products, 0.0005
Near(a, b) == Abs(a - b) <= 5

\* C17: the duties the mixer writes are the fixed linear map of the torques
\* duty_1 = -0.3333 * (Tz - 2.8284 * Ty),
\* duty_2 = -0.3333 * (Tz + 1.4142 * (Ty + 1.7320 * Tx)),
\* duty_3 = -0.3333 * (Tz + 1.4142 * (Ty - 1.7320 * Tx)),
\* here with the products multiplied out (0.3333 * 2.8284 = 0.9427,
\* 0.3333 * 1.4142 = 0.4714, 0.3333 * 1.4142 * 1.7320 = 0.8164); the
\* torques (0, 0, 1) give -0.3333 on all three motors and (0, 0, 0) give
\* zero duties, and the mixer leaves the kill flag clear.
C17_MixerLinear ==
  pc = "done" =>
    /\ Near(commands.motor_1_duty, Mul(9427, Ty) - Mul(3333, Tz))
    /\ Near(commands.motor_2_duty,
            0 - Mul(3333, Tz) - Mul(4714, Ty) - Mul(8164, Tx))
    /\ Near(commands.motor_3_duty,
            Mul(8164, Tx) - Mul(3333, Tz) - Mul(4714, Ty))
    /\ commands.kill = 0
    /\ Tx = 0 /\ Ty = 0 /\ Tz = Scale =>
         /\ commands.motor_1_duty = -3333
         /\ commands.motor_2_duty = -3333
         /\ commands.motor_3_duty = -3333
    /\ Tx = 0 /\ Ty = 0 /\ Tz = 0 => commands = ZeroCommands

\* C17 witness: the mixer has been applied to the unit yaw torque alone.
C17_Witness ==
  /\ pc = "done"
  /\ Tx = 0
  /\ Ty = 0
  /\ Tz = Scale
  /\ commands.motor_1_duty = -3333
  /\ commands.motor_3_duty = -3333

\* C18: the stopped state is absorbing: once a read of kill_now gives true,
\* it gives true after every further step (requests, signals, clock
\* advances, steps of the loop), the stored flag stays set, and __next__
\* ends in StopIteration: it yields no tick, advances no deadline, and from
\* its entry goes to the end of the for statement.
C18_StoppedAbsorbing ==
  /\ [][kill_now => kill_now']_vars
  /\ [][_kill_now => _kill_now']_vars
  /\ [][ kill_now /\ Iterating =>
          /\ UNCHANGED <<ticks, yields, t0, t1, t>>
          /\ pc /= "body" => pc' /= "body"
          /\ pc = "next" /\ pc' /= pc => pc' = "del" ]_vars

\* C18 witness: a loop stopped by a first request has had a second request,
\* has seen the clock advance past its deadline, and has ended after the one
\* tick it had yielded before.
C18_Witness ==
  /\ fade = 0
  /\ requests = 2
  /\ _kill_now
  /\ ticks = 1
  /\ now > t1
  /\ pc = "done"

\* the for statement has ended: __next__ has raised StopIteration
Ended == pc \in {"del", "shutdown", "done"}

\* C19: on a loop without fade, once the signal handler has run, at whatever
\* point of the loop, no further tick passes the last kill check of __next__:
\* the only tick body that can still start is the one whose kill check came
\* before the handler ran, so at most one, and once __next__ has seen
\* kill_now true the for statement has ended for good and no body starts.
C19_AtMostOneMoreTick ==
  [][ fade = 0 /\ requests > 0 =>
        /\ UNCHANGED <<ticks, yields>>
        /\ pc /= "body" => pc' /= "body"
        /\ Ended => Ended' ]_vars

\* C19 witness: the handler has run after the second tick was yielded and
\* before its body has started.
C19_Witness ==
  /\ fade = 0
  /\ requests = 1
  /\ _kill_now
  /\ pc = "body"
  /\ ticks = 2
  /\ n_sent + skips = 2

\* the main thread is inside __next__, before its last kill check is passed
InNext == pc \in {"next", "sleep_loop", "sleeping", "poll", "check"}

\* C20: no tick is yielded early: the k-th tick is yielded, and so its body
\* starts, no earlier than its deadline t0 + (k - 1) * dt, and the deadlines
\* follow one another on the grid with none left out; a __next__ entered at
\* or after its deadline, as after an overrun, does not wait: it begins no
\* sleep, leaves the busy poll at its first evaluation, and the coarse sleep
\* is only ever begun more than two sleep precisions before the deadline.
C20_NoEarlyTick ==
  /\ [](\A k \in 1..Len(yields) : yields[k] >= t0 + (k - 1) * DT)
  /\ [](Iterating => t1 = t0 + Len(yields) * DT)
  /\ [](pc = "sleeping" => t_pre_sleep < t1 - 2 * PRECISION_OF_SLEEP)
  /\ [][ InNext /\ now >= t1 /\ pc' /= pc =>
          /\ pc' /= "sleeping"
          /\ pc = "sleep_loop" => pc' = "poll"
          /\ pc = "poll" => pc' = "check"
          /\ now' = now ]_vars

\* C20 witness: the first tick body overran two deadlines, and the second
\* and third ticks were yielded back to back at the same time.
C20_Witness ==
  /\ Len(yields) = 3
  /\ yields[2] >= t0 + 2 * DT
  /\ yields[3] = yields[2]
  /\ pc = "body"

=============================================================================
